---------------------------- MODULE Spec2Model ----------------------------
(***************************************************************************)
(* A model of the Spotflow transaction analyzer (analyze_transactions.py): *)
(* the boundary scanner, the field extractor, the message normaliser and   *)
(* the aggregating loop of parse_csv.                                      *)
(*                                                                         *)
(* Text is modelled as a sequence of one-character strings, so that the    *)
(* string operations of the source (strip, lower, find, slicing, the       *)
(* regular expressions) are computed character by character.  Indices into *)
(* a row are 0-based, as in the source; Cell(row, idx) is row[idx].        *)
(***************************************************************************)
EXTENDS Integers, Sequences, FiniteSets, TLC

VARIABLES
    reader,          \* the lines csv.reader has still to deliver (header first)
    pc,              \* where parse_csv stands
    default_dt,      \* the file-level default timestamp (text)
    row,             \* the row being scanned by extract_transactions
    i,               \* extract_transactions' scan offset
    cand,            \* the tuple yielded by extract_transactions, when pc = "body"
    transactions,    \* parse_csv's list of accepted records
    summaries,       \* parse_csv's defaultdict: region name -> RegionSummary
    provider_order,  \* the order in which this process iterates the set PROVIDERS
    region_order,    \* the order in which this process iterates the set REGION_SET
    attempts,        \* history: outer-loop iterations run on the current row
    last,            \* history: the last outer-loop iteration (start, boundary, outcome)
    yielded          \* history: what extract_transactions yielded for the current row

vars == <<reader, pc, default_dt, row, i, cand, transactions, summaries,
          provider_order, region_order, attempts, last, yielded>>

-----------------------------------------------------------------------------
(* Characters *)

NBSP == "nbsp"      \* the one-character string "\xa0"

WHITESPACE == {" ", "\t", "\n", "\r", NBSP}

UPPERCASE == <<"A", "B", "C", "D", "E", "F", "G", "H", "I", "J", "K", "L", "M",
               "N", "O", "P", "Q", "R", "S", "T", "U", "V", "W", "X", "Y", "Z">>

LOWERCASE == <<"a", "b", "c", "d", "e", "f", "g", "h", "i", "j", "k", "l", "m",
               "n", "o", "p", "q", "r", "s", "t", "u", "v", "w", "x", "y", "z">>

DIGITS == <<"0", "1", "2", "3", "4", "5", "6", "7", "8", "9">>

UpperSet == {UPPERCASE[k] : k \in 1..26}
LowerSet == {LOWERCASE[k] : k \in 1..26}
DigitSet == {DIGITS[k] : k \in 1..10}

IsSpace(c) == c \in WHITESPACE
IsDigit(c) == c \in DigitSet
IsUpper(c) == c \in UpperSet
IsLowerCh(c) == c \in LowerSet
IsAlpha(c) == IsUpper(c) \/ IsLowerCh(c)

LowerChar(c) ==
    IF IsUpper(c) THEN LOWERCASE[CHOOSE k \in 1..26 : UPPERCASE[k] = c] ELSE c

UpperChar(c) ==
    IF IsLowerCh(c) THEN UPPERCASE[CHOOSE k \in 1..26 : LOWERCASE[k] = c] ELSE c

DigitValue(c) == (CHOOSE k \in 1..10 : DIGITS[k] = c) - 1

-----------------------------------------------------------------------------
(* Python's str operations, on sequences of characters *)

SetMin(S) == CHOOSE x \in S : \A y \in S : x <= y
SetMax(S) == CHOOSE x \in S : \A y \in S : x >= y

\* s[a:b] for 0 <= a, b
Slice(s, a, b) == SubSeq(s, a + 1, IF b > Len(s) THEN Len(s) ELSE b)

\* str.lower()
Lower(s) == [k \in 1..Len(s) |-> LowerChar(s[k])]

\* str.upper()
Upper(s) == [k \in 1..Len(s) |-> UpperChar(s[k])]

\* str.strip()
Strip(s) ==
    LET keep == {k \in 1..Len(s) : ~IsSpace(s[k])}
    IN  IF keep = {} THEN <<>> ELSE SubSeq(s, SetMin(keep), SetMax(keep))

\* str.strip(ch)
StripChar(s, ch) ==
    LET keep == {k \in 1..Len(s) : s[k] # ch}
    IN  IF keep = {} THEN <<>> ELSE SubSeq(s, SetMin(keep), SetMax(keep))

\* str.startswith(p), str.endswith(p)
StartsWith(s, p) == Len(p) <= Len(s) /\ SubSeq(s, 1, Len(p)) = p
EndsWith(s, p) == Len(p) <= Len(s) /\ SubSeq(s, Len(s) - Len(p) + 1, Len(s)) = p

\* str.find(m): the lowest 0-based index where m occurs in s, or -1
Find(s, m) ==
    LET at == {p \in 0..(Len(s) - Len(m)) : SubSeq(s, p + 1, p + Len(m)) = m}
    IN  IF at = {} THEN -1 ELSE SetMin(at)

\* ch in s
Contains(s, ch) == \E k \in 1..Len(s) : s[k] = ch

\* str.replace(ch, by) for a one-character ch and a text by
RECURSIVE ReplaceChar(_, _, _)
ReplaceChar(s, ch, by) ==
    IF s = <<>> THEN <<>>
    ELSE (IF Head(s) = ch THEN by ELSE <<Head(s)>>) \o ReplaceChar(Tail(s), ch, by)

\* sep.join(parts) for a one-character sep
RECURSIVE Join(_, _)
Join(sep, parts) ==
    IF parts = <<>> THEN <<>>
    ELSE IF Len(parts) = 1 THEN parts[1]
    ELSE parts[1] \o <<sep>> \o Join(sep, Tail(parts))

-----------------------------------------------------------------------------
(* The module constants of analyze_transactions.py, lines 25 to 33 *)

s_cellulant == <<"c", "e", "l", "l", "u", "l", "a", "n", "t">>
s_hubtel == <<"h", "u", "b", "t", "e", "l">>
s_interswitch == <<"i", "n", "t", "e", "r", "s", "w", "i", "t", "c", "h">>
s_ozow == <<"o", "z", "o", "w">>
s_paystack == <<"p", "a", "y", "s", "t", "a", "c", "k">>
s_spotflow_accounts == <<"s", "p", "o", "t", "f", "l", "o", "w", "_", "a", "c", "c", "o", "u", "n", "t", "s">>
s_tembo_plus == <<"t", "e", "m", "b", "o", "_", "p", "l", "u", "s">>
s_Nigeria == <<"N", "i", "g", "e", "r", "i", "a">>
s_Ghana == <<"G", "h", "a", "n", "a">>
s_South_Africa == <<"S", "o", "u", "t", "h", " ", "A", "f", "r", "i", "c", "a">>
s_Kenya == <<"K", "e", "n", "y", "a">>
s_Tanzania == <<"T", "a", "n", "z", "a", "n", "i", "a">>
s_Aggregate == <<"A", "g", "g", "r", "e", "g", "a", "t", "e">>
s_successful == <<"s", "u", "c", "c", "e", "s", "s", "f", "u", "l">>
s_failed == <<"f", "a", "i", "l", "e", "d">>
s_abandoned == <<"a", "b", "a", "n", "d", "o", "n", "e", "d">>
s_cancelled == <<"c", "a", "n", "c", "e", "l", "l", "e", "d">>
s_inprogress == <<"i", "n", "p", "r", "o", "g", "r", "e", "s", "s">>
s_card == <<"c", "a", "r", "d">>
s_bank_transfer == <<"b", "a", "n", "k", "_", "t", "r", "a", "n", "s", "f", "e", "r">>
s_eft == <<"e", "f", "t">>
s_mobile_money == <<"m", "o", "b", "i", "l", "e", "_", "m", "o", "n", "e", "y">>
s_other == <<"o", "t", "h", "e", "r">>
s_live == <<"l", "i", "v", "e">>
s_test == <<"t", "e", "s", "t">>
s_plus0000 == <<"+", "0", "0", ":", "0", "0">>
s_missing_date == <<"<", "m", "i", "s", "s", "i", "n", "g", "-", "d", "a", "t", "e", ">">>
s_blank == <<"<", "b", "l", "a", "n", "k", ">">>
s_inf == <<"i", "n", "f">>
s_infinity == <<"i", "n", "f", "i", "n", "i", "t", "y">>
s_nan == <<"n", "a", "n">>

REGIONS == <<s_Nigeria, s_Ghana, s_South_Africa, s_Kenya, s_Tanzania>>
REGION_SET == {REGIONS[k] : k \in 1..Len(REGIONS)}
PROVIDERS == {s_cellulant, s_hubtel, s_interswitch, s_ozow, s_paystack,
              s_spotflow_accounts, s_tembo_plus}
STATUSES == {s_successful, s_failed, s_abandoned, s_cancelled, s_inprogress}
CHANNELS == {s_card, s_bank_transfer, s_eft, s_mobile_money}
MODES == {s_live, s_test}
DEFAULT_TZ_SUFFIX == s_plus0000
DEFAULT_DATE_PLACEHOLDER == s_missing_date
BLANK_MESSAGE == s_blank

\* ISO_PATTERN.match(s): ^\d{4}-\d{2}-\d{2}T
ISO_PATTERN(s) ==
    /\ Len(s) >= 11
    /\ \A k \in {1, 2, 3, 4, 6, 7, 9, 10} : IsDigit(s[k])
    /\ s[5] = "-"
    /\ s[8] = "-"
    /\ s[11] = "T"

-----------------------------------------------------------------------------
(* _find_next_provider_index *)

\* Optional[int]: None
NoIndex == -1

Cell(r, idx) == r[idx + 1]

\* row[idx].strip().lower()
Norm(c) == Lower(Strip(c))

\* A faulty IsBoundary that takes any cell followed by a region name for a
\* provider
IsBoundaryAnyProvider(r, idx) == Strip(Cell(r, idx + 1)) \in REGION_SET

\* lines 120 to 123: the test of one index
IsBoundary(r, idx) ==
    /\ Norm(Cell(r, idx)) \in PROVIDERS
    /\ Strip(Cell(r, idx + 1)) \in REGION_SET

\* for idx in range(start, n - 1): the first idx that is a boundary
RECURSIVE ProviderLoop(_, _)
ProviderLoop(r, idx) ==
    IF idx >= Len(r) - 1 THEN NoIndex
    ELSE IF IsBoundary(r, idx) THEN idx
    ELSE ProviderLoop(r, idx + 1)

\* A faulty _find_next_provider_index that searches the row from its first
\* cell whatever the start
find_from_zero(r, start) == ProviderLoop(r, 0)

\* A faulty _find_next_provider_index that ends with `return idx or None`
\* style truthiness: the index 0 is reported as no boundary
find_truthy(r, start) ==
    IF ProviderLoop(r, start) = 0 THEN NoIndex ELSE ProviderLoop(r, start)

\* lines 117 to 124
find_next_provider_index(r, start) == ProviderLoop(r, start)

-----------------------------------------------------------------------------
(* extract_transactions: the pieces of one iteration of its outer loop *)

\* while idx < n and row[idx].strip().lower() not in STATUSES: collect the
\* non-empty stripped tokens as customer parts
RECURSIVE StatusLoop(_, _, _)
StatusLoop(r, idx, parts) ==
    IF idx < Len(r) /\ Norm(Cell(r, idx)) \notin STATUSES
    THEN StatusLoop(r, idx + 1,
                    IF Strip(Cell(r, idx)) # <<>>
                    THEN Append(parts, Strip(Cell(r, idx))) ELSE parts)
    ELSE [idx |-> idx, customer_parts |-> parts]

\* while idx < n and row[idx].strip().lower() not in CHANNELS: idx += 1
RECURSIVE ChannelLoop(_, _)
ChannelLoop(r, idx) ==
    IF idx < Len(r) /\ Norm(Cell(r, idx)) \notin CHANNELS
    THEN ChannelLoop(r, idx + 1)
    ELSE idx

\* skip the mode column if present
SkipMode(r, idx) ==
    IF idx < Len(r) /\ Norm(Cell(r, idx)) \in MODES THEN idx + 1 ELSE idx

\* the customer: the first part holding "@", else the first part, else empty;
\* then .strip().strip('"')
PickCustomer(parts) ==
    LET withAt == {k \in 1..Len(parts) : Contains(parts[k], "@")}
        chosen == IF withAt # {} THEN parts[SetMin(withAt)]
                  ELSE IF parts # <<>> THEN parts[1]
                  ELSE <<>>
    IN  StripChar(Strip(chosen), "\"")

\* the longest digitpart, digit (["_"] digit)*, of s from position p (1-based):
\* the position after it, or p when there is none
RECURSIVE DigitsEnd(_, _)
DigitsEnd(s, p) ==
    IF p > Len(s) \/ ~IsDigit(s[p]) THEN p
    ELSE IF p + 1 <= Len(s) /\ IsDigit(s[p + 1]) THEN DigitsEnd(s, p + 1)
    ELSE IF p + 2 <= Len(s) /\ s[p + 1] = "_" /\ IsDigit(s[p + 2])
         THEN DigitsEnd(s, p + 2)
    ELSE p + 1

\* float(s) succeeds, for s with no sign and no outer whitespace
FloatBody(s) ==
    LET n == Len(s)
        a == DigitsEnd(s, 1)
        hasInt == a > 1
        hasDot == a <= n /\ s[a] = "."
        f == IF hasDot THEN a + 1 ELSE a
        b == IF hasDot THEN DigitsEnd(s, f) ELSE f
        hasFrac == b > f
        hasE == b <= n /\ s[b] \in {"e", "E"}
        c == IF hasE /\ b + 1 <= n /\ s[b + 1] \in {"+", "-"} THEN b + 2
             ELSE IF hasE THEN b + 1 ELSE b
        d == IF hasE THEN DigitsEnd(s, c) ELSE c
    IN  \/ Lower(s) \in {s_inf, s_infinity, s_nan}
        \/ /\ hasInt \/ (hasDot /\ hasFrac)
           /\ hasE => d > c
           /\ d = n + 1

\* float(s) does not raise ValueError
FloatParses(s) ==
    LET t == Strip(s)
        u == IF t # <<>> /\ t[1] \in {"+", "-"} THEN Tail(t) ELSE t
    IN  FloatBody(u)

\* the nested _is_number(token)
is_number(token) ==
    IF token = <<>> THEN FALSE
    ELSE FloatParses(ReplaceChar(token, ",", <<>>))

\* The stop conditions of the message loop that leave the token unconsumed
\* (lines 181 to 199), for the token at idx
MessageStops(r, idx) ==
    LET stripped == Strip(Cell(r, idx))
        lower == Lower(stripped)
        lookahead == find_next_provider_index(r, idx)
        next_token == IF idx + 1 < Len(r) THEN Strip(Cell(r, idx + 1)) ELSE <<>>
    IN  \/ lookahead # NoIndex /\ lookahead = idx
        \/ lower \in PROVIDERS \/ stripped \in REGION_SET
        \/ Contains(stripped, "@") \/ lower \in STATUSES \/ lower \in CHANNELS
        \/ next_token # <<>> /\ is_number(next_token)

\* A faulty MessageLoop that steps over the token that stopped it
RECURSIVE MessageLoopSkip(_, _, _)
MessageLoopSkip(r, idx, parts) ==
    IF idx >= Len(r)
    THEN [idx |-> idx, message_parts |-> parts, payment_date |-> <<>>]
    ELSE IF ISO_PATTERN(Strip(Cell(r, idx)))
    THEN [idx |-> idx + 1, message_parts |-> parts,
          payment_date |-> Strip(Cell(r, idx))]
    ELSE IF MessageStops(r, idx)
    THEN [idx |-> idx + 1, message_parts |-> parts, payment_date |-> <<>>]
    ELSE MessageLoopSkip(r, idx + 1, Append(parts, Cell(r, idx)))

\* while idx < n: the message loop (lines 173 to 201)
RECURSIVE MessageLoop(_, _, _)
MessageLoop(r, idx, parts) ==
    IF idx >= Len(r)
    THEN [idx |-> idx, message_parts |-> parts, payment_date |-> <<>>]
    ELSE IF ISO_PATTERN(Strip(Cell(r, idx)))
    THEN [idx |-> idx + 1, message_parts |-> parts,
          payment_date |-> Strip(Cell(r, idx))]
    ELSE IF MessageStops(r, idx)
    THEN [idx |-> idx, message_parts |-> parts, payment_date |-> <<>>]
    ELSE MessageLoop(r, idx + 1, Append(parts, Cell(r, idx)))

\* for token in <a set of names>: truncate the message at the first marker
\* ","+token found, in the order the set is iterated, and stop (lines 206 to 219)
RECURSIVE TruncateAtFirst(_, _)
TruncateAtFirst(message, order) ==
    IF order = <<>> THEN message
    ELSE LET pos == Find(Lower(message), <<",">> \o Lower(Head(order)))
         IN  IF pos # -1 THEN Slice(message, 0, pos)
             ELSE TruncateAtFirst(message, Tail(order))

\* lines 203 to 221: join, strip, truncate, unquote
PostProcess(parts, porder, rorder) ==
    LET joined == Strip(Join(",", parts))
        cut == IF joined # <<>>
               THEN TruncateAtFirst(TruncateAtFirst(joined, porder), rorder)
               ELSE joined
    IN  IF StartsWith(cut, <<"\"">>) /\ EndsWith(cut, <<"\"">>)
        THEN Slice(cut, 1, Len(cut) - 1)
        ELSE cut

\* A faulty RetryOffset that retries from the boundary itself
RetryOffsetSame(provider_idx) == provider_idx

\* A faulty RetryOffset that skips the cell after the boundary
RetryOffsetSkip(provider_idx) == provider_idx + 2

\* Where an iteration that found the boundary provider_idx leaves the scan
\* offset when the row ends before the status or the channel (lines 146, 154)
RetryOffset(provider_idx) == provider_idx + 1

\* One iteration of the outer loop, started with i < n.  kind is "break" (no
\* boundary), "incomplete" (continue) or "yield"; next_i is the offset the
\* loop goes on from.
ScanAttempt(r, start, dflt, porder, rorder) ==
    LET provider_idx == find_next_provider_index(r, start)
        none == [kind |-> "break", b |-> NoIndex, next_i |-> start, rec |-> <<>>]
    IN  IF provider_idx = NoIndex THEN none
        ELSE
        LET provider == Norm(Cell(r, provider_idx))
            region == Strip(Cell(r, provider_idx + 1))
            st == StatusLoop(r, provider_idx + 2, <<>>)
            retry == [kind |-> "incomplete", b |-> provider_idx,
                      next_i |-> RetryOffset(provider_idx), rec |-> <<>>]
        IN  IF st.idx >= Len(r) THEN retry
            ELSE
            LET status == Norm(Cell(r, st.idx))
                ch == ChannelLoop(r, st.idx + 1)
            IN  IF ch >= Len(r) THEN retry
                ELSE
                LET channel == Norm(Cell(r, ch))
                    msg == MessageLoop(r, SkipMode(r, ch + 1), <<>>)
                    message == PostProcess(msg.message_parts, porder, rorder)
                    payment_date == IF msg.payment_date # <<>>
                                    THEN msg.payment_date ELSE dflt
                IN  [kind |-> "yield", b |-> provider_idx, next_i |-> msg.idx,
                     rec |-> [provider |-> provider, region |-> region,
                              status |-> status, channel |-> channel,
                              message |-> message, payment_date |-> payment_date,
                              customer |-> PickCustomer(st.customer_parts)]]

-----------------------------------------------------------------------------
(* _normalise_message *)

s_otp_kindly == <<"k", "i", "n", "d", "l", "y", " ", "e", "n", "t", "e", "r", " ", "t", "h", "e", " ", "o", "t", "p">>
s_otp_please_enter == <<"p", "l", "e", "a", "s", "e", " ", "e", "n", "t", "e", "r", " ", "t", "h", "e", " ", "o", "t", "p">>
s_otp_please_input == <<"p", "l", "e", "a", "s", "e", " ", "i", "n", "p", "u", "t", " ", "t", "h", "e", " ", "o", "t", "p">>
s_otp_required == <<"O", "T", "P", " ", "v", "e", "r", "i", "f", "i", "c", "a", "t", "i", "o", "n", " ", "r", "e", "q", "u", "i", "r", "e", "d">>

\* message.replace("\r\n", "\n")
RECURSIVE ReplaceCRLF(_)
ReplaceCRLF(s) ==
    IF Len(s) < 2 THEN s
    ELSE IF s[1] = "\r" /\ s[2] = "\n"
         THEN <<"\n">> \o ReplaceCRLF(SubSeq(s, 3, Len(s)))
    ELSE <<s[1]>> \o ReplaceCRLF(Tail(s))

\* s.split("\n", 1)[0]
FirstLine(s) ==
    LET p == Find(s, <<"\n">>) IN IF p = -1 THEN s ELSE Slice(s, 0, p)

\* re.sub(r"\s+", " ", s)
RECURSIVE CollapseSpace(_)
CollapseSpace(s) ==
    IF s = <<>> THEN <<>>
    ELSE IF IsSpace(s[1])
         THEN LET rest == {k \in 1..Len(s) : ~IsSpace(s[k])}
              IN  IF rest = {} THEN <<" ">>
                  ELSE <<" ">> \o CollapseSpace(SubSeq(s, SetMin(rest), Len(s)))
    ELSE <<s[1]>> \o CollapseSpace(Tail(s))

\* re.split(r'"\s*,', s, maxsplit=1)[0] when the pattern matches, else s itself;
\* found tells which
StraySplit(s) ==
    LET hit(p) == /\ s[p] = "\""
                  /\ \E q \in (p + 1)..Len(s) :
                        /\ s[q] = ","
                        /\ \A k \in (p + 1)..(q - 1) : IsSpace(s[k])
        at == {p \in 1..Len(s) : hit(p)}
    IN  IF at = {} THEN [found |-> FALSE, head |-> s]
        ELSE [found |-> TRUE, head |-> SubSeq(s, 1, SetMin(at) - 1)]

\* re.sub(r'[\s,;:."-]+$', '', s)
TRAILING == {",", ";", ":", ".", "\"", "-"}

StripTrailing(s) ==
    LET keep == {k \in 1..Len(s) : ~(IsSpace(s[k]) \/ s[k] \in TRAILING)}
    IN  IF keep = {} THEN <<>> ELSE SubSeq(s, 1, SetMax(keep))

\* str.title()
Title(s) ==
    [k \in 1..Len(s) |->
        IF k > 1 /\ IsAlpha(s[k - 1]) THEN LowerChar(s[k]) ELSE UpperChar(s[k])]

\* \w
IsWord(c) == IsAlpha(c) \/ IsDigit(c) \/ c = "_"

\* the matches of \b[A-Z]{2,}\b in s, as (first, last) positions: the runs of
\* capitals that have no word character on either side
UpperRuns(s) ==
    {pq \in (1..Len(s)) \X (1..Len(s)) :
        /\ pq[1] < pq[2]
        /\ \A k \in pq[1]..pq[2] : IsUpper(s[k])
        /\ pq[1] = 1 \/ ~IsWord(s[pq[1] - 1])
        /\ pq[2] = Len(s) \/ ~IsWord(s[pq[2] + 1])}

\* uppercase_tokens: the matches of at most 4 letters
UppercaseTokens(s) ==
    {SubSeq(s, pq[1], pq[2]) : pq \in {x \in UpperRuns(s) : x[2] - x[1] + 1 <= 4}}

\* for token in uppercase_tokens: re.sub(r"\b" + token.lower() + r"\b", token, low):
\* every whole word of low that is the lower-case form of a token is put back in
\* capitals (the substitutions touch disjoint words, so their order is immaterial)
Reinsert(low, tokens) ==
    LET lows == {Lower(t) : t \in tokens}
        inToken(k) ==
            \E p \in 1..k : \E q \in k..Len(low) :
                /\ SubSeq(low, p, q) \in lows
                /\ p = 1 \/ ~IsWord(low[p - 1])
                /\ q = Len(low) \/ ~IsWord(low[q + 1])
    IN  [k \in 1..Len(low) |-> IF inToken(k) THEN UpperChar(low[k]) ELSE low[k]]

\* lines 82 to 88
Underscores(s) ==
    IF ~Contains(s, "_") THEN s
    ELSE LET candidate == Strip(ReplaceChar(s, "_", <<" ">>))
         IN  IF candidate = <<>> THEN s
             ELSE IF Upper(s) = s THEN Title(candidate)
             ELSE candidate

\* lines 90 to 114
Recase(s) ==
    LET low == Lower(s)
    IN  IF \E p \in {s_otp_kindly, s_otp_please_enter, s_otp_please_input} :
              StartsWith(low, p)
        THEN s_otp_required
        ELSE LET back == Reinsert(low, UppercaseTokens(s))
             IN  IF back = <<>> THEN back
                 ELSE <<UpperChar(back[1])>> \o Tail(back)

\* lines 71 to 80
Tidy(s) ==
    LET spaced == Strip(CollapseSpace(ReplaceChar(s, NBSP, <<" ">>)))
        split == StraySplit(spaced)
        kept == IF split.found /\ Strip(split.head) # <<>>
                THEN Strip(split.head) ELSE spaced
    IN  Strip(StripTrailing(kept))

normalise_message(message) ==
    LET cleaned == Strip(ReplaceCRLF(message))
        q == <<"\"">>
    IN  IF cleaned = <<>> \/ cleaned \in {<<",">>, <<",", ",">>, <<"\"", "\"">>, <<"'", "'">>}
        THEN BLANK_MESSAGE
        ELSE
        LET line0 == Strip(FirstLine(cleaned))
            line1 == IF StartsWith(line0, q) /\ EndsWith(line0, q) /\ Len(line0) > 1
                     THEN Strip(Slice(line0, 1, Len(line0) - 1)) ELSE line0
            line2 == Strip(StripChar(line1, "\""))
        IN  IF line2 = <<>> \/ line2 \in {<<",">>, <<",", ",">>, <<".">>, <<"-">>}
            THEN BLANK_MESSAGE
            ELSE Recase(Underscores(Tidy(line2)))

-----------------------------------------------------------------------------
(* datetime.fromisoformat, for the texts parse_csv gives it: the placeholder, *)
(* or a text that ISO_PATTERN matched, with "Z" replaced by "+00:00".  The   *)
(* forms modelled are YYYY-MM-DD, a separator, HH[:MM[:SS]] and an optional  *)
(* offset +HH:MM or -HH:MM; the result is <<year, month, day, hour, minute,  *)
(* second, aware, offset in minutes>>, or ParseError for ValueError.         *)

ParseError == <<"ValueError">>

\* dt = None
NoneDt == <<>>

TwoDigits(s, p) == 10 * DigitValue(s[p]) + DigitValue(s[p + 1])

AreDigits(s, ps) == \A p \in ps : p <= Len(s) /\ IsDigit(s[p])

IsLeap(y) == (y % 4 = 0 /\ y % 100 # 0) \/ y % 400 = 0

DaysInMonth(y, m) ==
    IF m = 2 THEN (IF IsLeap(y) THEN 29 ELSE 28)
    ELSE IF m \in {4, 6, 9, 11} THEN 30 ELSE 31

\* the time of day HH[:MM[:SS]]: <<hour, minute, second>>, or ParseError
ParseClock(s) ==
    LET n == Len(s)
        shape == /\ n \in {2, 5, 8}
                 /\ AreDigits(s, {1, 2})
                 /\ n >= 5 => (s[3] = ":" /\ AreDigits(s, {4, 5}))
                 /\ n >= 8 => (s[6] = ":" /\ AreDigits(s, {7, 8}))
    IN  IF ~shape THEN ParseError
        ELSE LET h == TwoDigits(s, 1)
                 m == IF n >= 5 THEN TwoDigits(s, 4) ELSE 0
                 sec == IF n >= 8 THEN TwoDigits(s, 7) ELSE 0
             IN  IF h <= 23 /\ m <= 59 /\ sec <= 59 THEN <<h, m, sec>>
                 ELSE ParseError

\* the offset HH:MM after its sign: minutes, or -1 for ValueError
ParseOffset(s) ==
    IF Len(s) = 5 /\ AreDigits(s, {1, 2, 4, 5}) /\ s[3] = ":"
          /\ TwoDigits(s, 1) <= 23 /\ TwoDigits(s, 4) <= 59
    THEN 60 * TwoDigits(s, 1) + TwoDigits(s, 4)
    ELSE -1

fromisoformat(s) ==
    IF ~(Len(s) >= 10 /\ AreDigits(s, {1, 2, 3, 4, 6, 7, 9, 10})
            /\ s[5] = "-" /\ s[8] = "-")
    THEN ParseError
    ELSE
    LET y == 1000 * DigitValue(s[1]) + 100 * DigitValue(s[2]) + TwoDigits(s, 3)
        mo == TwoDigits(s, 6)
        d == TwoDigits(s, 9)
        dateOK == y >= 1 /\ mo \in 1..12 /\ d >= 1 /\ d <= DaysInMonth(y, mo)
        rest == SubSeq(s, 12, Len(s))
        signs == {k \in 1..Len(rest) : rest[k] \in {"+", "-"}}
        clock == ParseClock(IF signs = {} THEN rest
                            ELSE SubSeq(rest, 1, SetMin(signs) - 1))
        off == IF signs = {} THEN 0
               ELSE ParseOffset(SubSeq(rest, SetMin(signs) + 1, Len(rest)))
        sign == IF signs # {} /\ rest[SetMin(signs)] = "-" THEN -1 ELSE 1
    IN  IF ~dateOK THEN ParseError
        ELSE IF Len(s) = 10 THEN <<y, mo, d, 0, 0, 0, 0, 0>>
        ELSE IF Len(s) = 11 \/ clock = ParseError \/ off = -1 THEN ParseError
        ELSE <<y, mo, d, clock[1], clock[2], clock[3],
               IF signs = {} THEN 0 ELSE 1, sign * off>>

\* payment_date.replace("Z", DEFAULT_TZ_SUFFIX)
ReplaceZ(s) == ReplaceChar(s, "Z", DEFAULT_TZ_SUFFIX)

\* A faulty ResolveTimestamp that drops the record with the placeholder too
ResolveTimestampStrict(payment_date) == fromisoformat(ReplaceZ(payment_date))

\* lines 255 to 261: the resolved dt, or ParseError when the record is dropped
ResolveTimestamp(payment_date) ==
    LET parsed == fromisoformat(ReplaceZ(payment_date))
    IN  IF parsed # ParseError THEN parsed
        ELSE IF payment_date = DEFAULT_DATE_PLACEHOLDER THEN NoneDt
        ELSE ParseError

-----------------------------------------------------------------------------
(* The summaries: defaultdict and Counter as functions with a growing domain *)

\* d.get(k, dflt), and the value a defaultdict or Counter gives for k
Get(d, k, dflt) == IF k \in DOMAIN d THEN d[k] ELSE dflt

\* d[k] = v
Put(d, k, v) == [x \in (DOMAIN d) \cup {k} |-> IF x = k THEN v ELSE d[x]]

\* counter[k] += 1
Inc(counter, k) == Put(counter, k, Get(counter, k, 0) + 1)

\* ProviderSummary()
NewProviderSummary ==
    [status_counts |-> <<>>, channel_counts |-> <<>>, messages_by_status |-> <<>>]

\* RegionSummary()
NewRegionSummary ==
    [times |-> <<>>, status_counts |-> <<>>, channel_counts |-> <<>>,
     messages_by_status |-> <<>>, providers |-> <<>>]

\* A faulty Bump that forgets the channel: the status and the message are
\* counted, the channel is not
BumpNoChannel(s, status, channel, norm_message) ==
    [s EXCEPT !.status_counts = Inc(@, status),
              !.messages_by_status =
                  Put(@, status, Inc(Get(@, status, <<>>), norm_message))]

\* the three increments made on one summary (lines 272 to 274, 276 to 278,
\* 281 to 283, 286 to 288)
Bump(s, status, channel, norm_message) ==
    [s EXCEPT !.status_counts = Inc(@, status),
              !.channel_counts = Inc(@, channel),
              !.messages_by_status =
                  Put(@, status, Inc(Get(@, status, <<>>), norm_message))]

\* summaries[region]: the defaultdict creates the entry on first access
Touch(sums, region) ==
    IF region \in DOMAIN sums THEN sums ELSE Put(sums, region, NewRegionSummary)

\* A faulty AppendTimes without the `if dt` test: the missing time of a
\* record with the placeholder date is appended like a real one
AppendTimesAlways(sums, region, dt) ==
    LET s1 == [sums EXCEPT ![region].times = Append(@, dt)]
    IN  [s1 EXCEPT ![s_Aggregate].times = Append(@, dt)]

\* if dt: target.times.append(dt); aggregate.times.append(dt)
AppendTimes(sums, region, dt) ==
    IF dt = NoneDt THEN sums
    ELSE LET s1 == [sums EXCEPT ![region].times = Append(@, dt)]
         IN  [s1 EXCEPT ![s_Aggregate].times = Append(@, dt)]

\* A faulty BumpRegions that forgets the second write: only the region is
\* counted, Aggregate is not
BumpRegionsOnly(sums, region, status, channel, norm_message) ==
    [sums EXCEPT ![region] = Bump(@, status, channel, norm_message)]

\* lines 272 to 278: the counters of the region, then of Aggregate
BumpRegions(sums, region, status, channel, norm_message) ==
    LET s1 == [sums EXCEPT ![region] = Bump(@, status, channel, norm_message)]
    IN  [s1 EXCEPT ![s_Aggregate] = Bump(@, status, channel, norm_message)]

\* target.providers[provider], created on first access, and its increments
BumpProvider(sums, region, provider, status, channel, norm_message) ==
    [sums EXCEPT ![region].providers =
        Put(@, provider,
            Bump(Get(@, provider, NewProviderSummary), status, channel, norm_message))]

\* lines 280 to 288: the provider bucket of the region, then of Aggregate
BumpProviders(sums, region, provider, status, channel, norm_message) ==
    BumpProvider(BumpProvider(sums, region, provider, status, channel, norm_message),
                 s_Aggregate, provider, status, channel, norm_message)

\* lines 248 to 251: the candidate is dropped
GateRejects(c) ==
    \/ c.region \notin REGION_SET /\ c.region # s_Aggregate
    \/ c.status \notin STATUSES

\* lines 252, 253
CoerceChannel(channel) == IF channel \notin CHANNELS THEN s_other ELSE channel

\* lines 263 to 288: the record is kept and counted
Accept(txs, sums, c, channel, dt) ==
    LET norm_message == normalise_message(c.message)
        key == [provider |-> c.provider, region |-> c.region, status |-> c.status,
                channel |-> channel, message |-> norm_message, dt |-> dt,
                customer |-> c.customer]
        s1 == Touch(sums, c.region)
        s2 == AppendTimes(s1, c.region, dt)
        s3 == BumpRegions(s2, c.region, c.status, channel, norm_message)
        s4 == BumpProviders(s3, c.region, c.provider, c.status, channel, norm_message)
    IN  [transactions |-> Append(txs, key), summaries |-> s4]

\* A faulty LoopBody that keeps, with no time, the record whose timestamp
\* does not parse
LoopBodyKeep(txs, sums, c) ==
    IF GateRejects(c) THEN [transactions |-> txs, summaries |-> sums]
    ELSE LET dt == ResolveTimestamp(c.payment_date)
         IN  Accept(txs, sums, c, CoerceChannel(c.channel),
                    IF dt = ParseError THEN NoneDt ELSE dt)

\* A faulty LoopBody that drops a tuple equal to one it has accepted before
LoopBodyDedup(txs, sums, c) ==
    IF GateRejects(c) THEN [transactions |-> txs, summaries |-> sums]
    ELSE LET dt == ResolveTimestamp(c.payment_date)
             norm_message == normalise_message(c.message)
         IN  IF dt = ParseError THEN [transactions |-> txs, summaries |-> sums]
             ELSE IF \E k \in 1..Len(txs) :
                         /\ txs[k].provider = c.provider
                         /\ txs[k].region = c.region
                         /\ txs[k].status = c.status
                         /\ txs[k].customer = c.customer
                         /\ txs[k].message = norm_message
                         /\ txs[k].dt = dt
             THEN [transactions |-> txs, summaries |-> sums]
             ELSE Accept(txs, sums, c, CoerceChannel(c.channel), dt)

\* The body of parse_csv's inner loop (lines 248 to 288) for one yielded tuple
LoopBody(txs, sums, c) ==
    IF GateRejects(c) THEN [transactions |-> txs, summaries |-> sums]
    ELSE LET dt == ResolveTimestamp(c.payment_date)
         IN  IF dt = ParseError THEN [transactions |-> txs, summaries |-> sums]
             ELSE Accept(txs, sums, c, CoerceChannel(c.channel), dt)

\* lines 238 to 242
DefaultDt(header) ==
    LET hits == {k \in 1..Len(header) : ISO_PATTERN(Strip(header[k]))}
    IN  IF hits = {} THEN DEFAULT_DATE_PLACEHOLDER ELSE Strip(header[SetMin(hits)])

-----------------------------------------------------------------------------
(* parse_csv as a state machine *)

NoCand == [provider |-> <<>>, region |-> <<>>, status |-> <<>>, channel |-> <<>>,
           message |-> <<>>, payment_date |-> <<>>, customer |-> <<>>]

NoAttempt == [start |-> 0, b |-> NoIndex, kind |-> "none"]

\* parse_csv after lines 229 to 231, about to read the file `lines`
Start(lines, porder, rorder, at) ==
    /\ reader = lines
    /\ pc = at
    /\ default_dt = <<>>
    /\ row = <<>>
    /\ i = 0
    /\ cand = NoCand
    /\ transactions = <<>>
    /\ summaries = Put(<<>>, s_Aggregate, NewRegionSummary)
    /\ provider_order = porder
    /\ region_order = rorder
    /\ attempts = 0
    /\ last = NoAttempt
    /\ yielded = <<>>

\* lines 235 to 242: header = next(reader, None)
ReadHeader ==
    /\ pc = "header"
    /\ IF reader = <<>>
       THEN /\ pc' = "raised"
            /\ UNCHANGED <<reader, default_dt>>
       ELSE /\ default_dt' = DefaultDt(Head(reader))
            /\ reader' = Tail(reader)
            /\ pc' = "rows"
    /\ UNCHANGED <<row, i, cand, transactions, summaries, provider_order,
                   region_order, attempts, last, yielded>>

\* lines 244 to 247: for row in reader; an empty row is skipped, any other
\* row starts extract_transactions; the end of the file returns
NextRow ==
    /\ pc = "rows"
    /\ IF reader = <<>>
       THEN /\ pc' = "returned"
            /\ UNCHANGED <<reader, row, i, attempts, last, yielded>>
       ELSE /\ reader' = Tail(reader)
            /\ row' = Head(reader)
            /\ i' = 0
            /\ attempts' = 0
            /\ last' = NoAttempt
            /\ yielded' = <<>>
            /\ pc' = IF Head(reader) = <<>> THEN "rows" ELSE "scan"
    /\ UNCHANGED <<default_dt, cand, transactions, summaries, provider_order,
                   region_order>>

\* A faulty ScanStep that, after a yield, goes on from the cell after the
\* boundary (i = provider_idx + 1) and not from idx
ScanStepRescan ==
    /\ pc = "scan"
    /\ attempts <= Len(row)
    /\ IF i < Len(row)
       THEN \E a \in {ScanAttempt(row, i, default_dt, provider_order, region_order)} :
                /\ attempts' = attempts + 1
                /\ last' = [start |-> i, b |-> a.b, kind |-> a.kind]
                /\ IF a.kind = "yield"
                   THEN /\ i' = a.b + 1
                        /\ cand' = a.rec
                        /\ yielded' = Append(yielded,
                               [b |-> a.b, end |-> a.next_i, rec |-> a.rec])
                        /\ pc' = "body"
                   ELSE /\ i' = a.next_i
                        /\ pc' = IF a.kind = "break" THEN "rows" ELSE "scan"
                        /\ UNCHANGED <<cand, yielded>>
       ELSE /\ pc' = "rows"
            /\ last' = [start |-> i, b |-> NoIndex, kind |-> "exhausted"]
            /\ UNCHANGED <<i, attempts, cand, yielded>>
    /\ UNCHANGED <<reader, default_dt, row, transactions, summaries,
                   provider_order, region_order>>

\* extract_transactions, lines 131 to 225: the loop test and one iteration of
\* the outer loop.  The generator's frame holds idx while it is suspended at
\* the yield and assigns i = idx when resumed; i holds that value from the
\* yield on.  The history counter attempts stops the model one step after it
\* exceeds the row length.
ScanStep ==
    /\ pc = "scan"
    /\ attempts <= Len(row)
    /\ IF i < Len(row)
       THEN \E a \in {ScanAttempt(row, i, default_dt, provider_order, region_order)} :
                /\ attempts' = attempts + 1
                /\ last' = [start |-> i, b |-> a.b, kind |-> a.kind]
                /\ i' = a.next_i
                /\ IF a.kind = "yield"
                   THEN /\ cand' = a.rec
                        /\ yielded' = Append(yielded,
                               [b |-> a.b, end |-> a.next_i, rec |-> a.rec])
                        /\ pc' = "body"
                   ELSE /\ pc' = IF a.kind = "break" THEN "rows" ELSE "scan"
                        /\ UNCHANGED <<cand, yielded>>
       ELSE /\ pc' = "rows"
            /\ last' = [start |-> i, b |-> NoIndex, kind |-> "exhausted"]
            /\ UNCHANGED <<i, attempts, cand, yielded>>
    /\ UNCHANGED <<reader, default_dt, row, transactions, summaries,
                   provider_order, region_order>>

\* lines 248 to 288: the loop body on the tuple bound by the for statement;
\* control then goes back to `back`
RunBody(back) ==
    /\ pc = "body"
    /\ \E r \in {LoopBody(transactions, summaries, cand)} :
           /\ transactions' = r.transactions
           /\ summaries' = r.summaries
    /\ pc' = back
    /\ UNCHANGED <<reader, default_dt, row, i, cand, provider_order,
                   region_order, attempts, last, yielded>>

\* the loop body in parse_csv: the generator is resumed next
Ingest == RunBody("scan")

Next == ReadHeader \/ NextRow \/ ScanStep \/ Ingest

-----------------------------------------------------------------------------
(* The inputs: cells, rows, headers and files *)

c_cust_a == <<"a", "@", "x", ".", "c", "o", "m">>
c_cust_b == <<"b", "@", "y", ".", "c", "o", "m">>
c_date_1 == <<"2", "0", "2", "4", "-", "0", "1", "-", "0", "1", "T", "1", "0", ":", "0", "0", ":", "0", "0">>
c_date_2 == <<"2", "0", "2", "4", "-", "0", "1", "-", "0", "2", "T", "1", "1", ":", "0", "0", ":", "0", "0", "Z">>
c_date_bad == <<"2", "0", "2", "4", "-", "1", "3", "-", "0", "1", "T", "1", "0", ":", "0", "0", ":", "0", "0">>
c_date_header == <<"2", "0", "2", "4", "-", "0", "5", "-", "0", "5", "T", "0", "0", ":", "0", "0", ":", "0", "0">>
c_ussd == <<"u", "s", "s", "d">>
c_declined == <<"D", "e", "c", "l", "i", "n", "e", "d">>
c_no_funds == <<"I", "N", "S", "U", "F", "F", "I", "C", "I", "E", "N", "T", "_", "F", "U", "N", "D", "S">>
c_two_markers == <<"n", "o", ",", "o", "z", "o", "w", ",", "h", "u", "b", "t", "e", "l">>
c_quoted == <<"\"", "P", "a", "i", "d", "\"">>
c_word_successful == <<"S", "u", "c", "c", "e", "s", "s", "f", "u", "l">>
c_otp == <<"K", "i", "n", "d", "l", "y", " ", "e", "n", "t", "e", "r", " ", "t", "h", "e", " ", "O", "T", "P">>
c_padded_ozow == <<" ", "O", "Z", "O", "W", " ">>
c_padded_kenya == <<" ", "K", "e", "n", "y", "a">>
c_amount == <<"1", ",", "0", "0", "0">>
c_ok == <<"o", "k">>
c_h_id == <<"i", "d">>
c_h_date == <<"d", "a", "t", "e">>
c_two_regions == <<"a", "t", ",", "K", "e", "n", "y", "a", ",", "G", "h", "a", "n", "a">>

\* Bounds
MaxRows == 2       \* data rows of a file, for Spec
MaxLen == 5        \* cells of a row, for SpecScan
MaxCands == 2      \* tuples handed to the loop body, for SpecGate

SeqsUpTo(S, n) == UNION {[1..k -> S] : k \in 0..n}

\* A well-formed transaction: provider, region, customer id, status, channel,
\* message, ISO timestamp
Tx(provider, region, customer, status, channel, message, date) ==
    <<provider, region, customer, status, channel, message, date>>

TxA(message) == Tx(s_ozow, s_Kenya, c_cust_a, s_failed, s_eft, message, c_date_1)
TxB(message) == Tx(s_hubtel, s_Ghana, c_cust_b, s_successful, s_card, message, c_date_2)

row_clean == TxA(c_declined)
row_nodate == <<s_hubtel, s_Ghana, c_cust_b, s_successful, s_card, s_live, c_two_markers>>
row_merged == <<c_padded_ozow, c_padded_kenya, c_cust_a, s_failed, s_eft, c_no_funds,
                c_date_bad>> \o TxB(c_quoted)
row_ussd == Tx(s_hubtel, s_Ghana, c_cust_b, s_successful, c_ussd, c_declined, c_date_2)
row_short == <<s_ozow, s_Kenya, c_cust_a>>
row_otp == <<s_cellulant, s_Ghana, c_cust_a, s_successful, s_eft, c_otp, c_amount>>
row_regions == <<s_paystack, s_Nigeria, s_abandoned, s_mobile_money, c_two_regions>>

PipelineRows == {row_clean, row_nodate, row_merged, row_ussd, row_short, row_otp,
                 row_regions, <<>>}

header_plain == <<c_h_id, c_h_date>>
header_dated == <<c_h_id, c_date_header>>
header_bad == <<c_date_bad, c_date_header>>

Headers == {header_plain, header_dated, header_bad}

\* The files: a header and some rows, or nothing at all
Files(headers, rows) == {<<h>> \o rs : h \in headers, rs \in rows} \cup {<<>>}

\* The orders in which a process may iterate the sets PROVIDERS and REGION_SET
\* (they vary with the hash seed).  Only the relative order of the names that
\* occur as markers in a message decides a truncation; the input messages hold
\* markers of ozow and hubtel, and of Kenya and Ghana, and the two orders of
\* each set give both relative orders.
Reverse(s) == [k \in 1..Len(s) |-> s[Len(s) + 1 - k]]

providers_sorted == <<s_cellulant, s_hubtel, s_interswitch, s_ozow, s_paystack,
                      s_spotflow_accounts, s_tembo_plus>>

ProviderOrders == {providers_sorted, Reverse(providers_sorted)}
RegionOrders == {REGIONS, Reverse(REGIONS)}

-----------------------------------------------------------------------------
(* Spec: parse_csv over files of up to MaxRows rows *)

Init ==
    \E f \in Files(Headers, SeqsUpTo(PipelineRows, MaxRows)) :
    \E po \in ProviderOrders : \E ro \in RegionOrders : Start(f, po, ro, "header")

Spec == Init /\ [][Next]_vars

-----------------------------------------------------------------------------
(* SpecScan: extract_transactions over every row of up to MaxLen cells *)

ScanCells == {s_ozow, s_Kenya, s_failed, s_eft, c_ok}

InitScan ==
    \E r \in SeqsUpTo(ScanCells, MaxLen) :
        Start(<<header_plain, r>>, providers_sorted, REGIONS, "header")

ScanStepEnabled == pc = "scan" /\ attempts <= Len(row)

IngestEnabled == pc = "body"

\* parse_csv is one sequential run: a step that can be taken is eventually
\* taken, which is weak fairness of each action.  For ScanStep and Ingest it
\* is written out, WF_v(A) being []<>~ENABLED <<A>>_v \/ []<><<A>>_v, with the
\* enabling condition read off the guard of the action.
Fairness ==
    /\ WF_vars(ReadHeader)
    /\ WF_vars(NextRow)
    /\ ([]<>~ScanStepEnabled \/ []<><<ScanStep>>_vars)
    /\ ([]<>~IngestEnabled \/ []<><<Ingest>>_vars)

SpecScan == InitScan /\ [][Next]_vars /\ Fairness

-----------------------------------------------------------------------------
(* SpecWF: rows of one or two well-formed transactions *)

WFMessages == {c_declined, c_word_successful, c_quoted, c_two_markers, c_otp}

WFTx == {TxA(m) : m \in WFMessages} \cup {TxB(m) : m \in WFMessages}

WFRows == WFTx \cup {t1 \o t2 : t1 \in WFTx, t2 \in WFTx}

InitWF ==
    \E r \in WFRows : \E h \in {header_plain, header_dated} :
    \E po \in ProviderOrders : \E ro \in RegionOrders :
        Start(<<h, r>>, po, ro, "header")

SpecWF == InitWF /\ [][Next]_vars

-----------------------------------------------------------------------------
(* SpecGate: the loop body of parse_csv (lines 248 to 288) on any tuple *)

Candidates ==
    {[provider |-> s_ozow, region |-> r, status |-> s, channel |-> ch,
      message |-> c_declined, payment_date |-> d, customer |-> c_cust_a] :
        r \in {s_Kenya, s_Ghana, s_Aggregate, Lower(s_Kenya), c_ok},
        s \in {s_failed, c_declined},
        ch \in {s_eft, c_ussd},
        d \in {c_date_1, c_date_bad, DEFAULT_DATE_PLACEHOLDER}}

\* line 247: the for statement binds the next tuple
Offer ==
    /\ pc = "gate"
    /\ Len(yielded) < MaxCands
    /\ \E c \in Candidates :
           /\ cand' = c
           /\ yielded' = Append(yielded, [b |-> NoIndex, end |-> 0, rec |-> c])
    /\ pc' = "body"
    /\ UNCHANGED <<reader, default_dt, row, i, transactions, summaries,
                   provider_order, region_order, attempts, last>>

GateIngest == RunBody("gate")

InitGate == Start(<<>>, providers_sorted, REGIONS, "gate")

NextGate == Offer \/ GateIngest

SpecGate == InitGate /\ [][NextGate]_vars

-----------------------------------------------------------------------------
(* Reading the summaries *)

Count(counter, k) == Get(counter, k, 0)

MessageCount(s, status, message) ==
    Count(Get(s.messages_by_status, status, <<>>), message)

RegionOf(sums, r) == Get(sums, r, NewRegionSummary)

ProviderOf(sums, r, p) == Get(RegionOf(sums, r).providers, p, NewProviderSummary)

SumOverRegions(F(_)) ==
    F(REGIONS[1]) + F(REGIONS[2]) + F(REGIONS[3]) + F(REGIONS[4]) + F(REGIONS[5])

ProvidersSeen == UNION {DOMAIN summaries[r].providers : r \in DOMAIN summaries}

\* every (status, message) pair a messages_by_status holds
MessageKeysOf(s) ==
    UNION {{<<st, m>> : m \in DOMAIN s.messages_by_status[st]} :
               st \in DOMAIN s.messages_by_status}

\* every key of any counter of any summary, region or provider bucket
StatusKeys ==
    UNION ({DOMAIN summaries[r].status_counts : r \in DOMAIN summaries} \cup
           {DOMAIN ProviderOf(summaries, r, p).status_counts :
                r \in DOMAIN summaries, p \in ProvidersSeen})

ChannelKeys ==
    UNION ({DOMAIN summaries[r].channel_counts : r \in DOMAIN summaries} \cup
           {DOMAIN ProviderOf(summaries, r, p).channel_counts :
                r \in DOMAIN summaries, p \in ProvidersSeen})

MessageKeys ==
    UNION ({MessageKeysOf(summaries[r]) : r \in DOMAIN summaries} \cup
           {MessageKeysOf(ProviderOf(summaries, r, p)) :
                r \in DOMAIN summaries, p \in ProvidersSeen})

\* the three counters of the bucket agg hold, key by key, the sum over the
\* five regions of the counters of the buckets Part(region)
BucketIsSum(agg, Part(_)) ==
    /\ \A k \in StatusKeys :
           Count(agg.status_counts, k) =
               SumOverRegions(LAMBDA r : Count(Part(r).status_counts, k))
    /\ \A k \in ChannelKeys :
           Count(agg.channel_counts, k) =
               SumOverRegions(LAMBDA r : Count(Part(r).channel_counts, k))
    /\ \A k \in MessageKeys :
           MessageCount(agg, k[1], k[2]) =
               SumOverRegions(LAMBDA r : MessageCount(Part(r), k[1], k[2]))

\* the three counters of `after` at the keys of one record are those of
\* `before` plus one
Bumped(before, after, status, channel, message) ==
    /\ Count(after.status_counts, status) = Count(before.status_counts, status) + 1
    /\ Count(after.channel_counts, channel) = Count(before.channel_counts, channel) + 1
    /\ MessageCount(after, status, message) = MessageCount(before, status, message) + 1

-----------------------------------------------------------------------------
(* C1 *)

\* C1: at every point of parse_csv, whatever candidates were accepted or
\* discarded so far, each status, channel and (status, normalized message)
\* count of Aggregate is the sum of that key's counts over the five regions,
\* and each count of an Aggregate provider bucket is the sum of that
\* provider's counts over the five regions.
C1_AggregateIsSumOfRegions ==
    /\ BucketIsSum(summaries[s_Aggregate], LAMBDA r : RegionOf(summaries, r))
    /\ \A p \in ProvidersSeen :
           BucketIsSum(ProviderOf(summaries, s_Aggregate, p),
                       LAMBDA r : ProviderOf(summaries, r, p))

\* parse_csv has returned after records of two regions were accepted under
\* one channel key
C1_Witness ==
    /\ pc = "returned"
    /\ \E r1 \in REGION_SET : \E r2 \in REGION_SET \ {r1} : \E k \in CHANNELS :
           /\ Count(RegionOf(summaries, r1).channel_counts, k) >= 1
           /\ Count(RegionOf(summaries, r2).channel_counts, k) >= 1
           /\ Count(summaries[s_Aggregate].channel_counts, k) >= 2

-----------------------------------------------------------------------------
(* C2, C3, C10: the scan loop of extract_transactions *)

\* C2: the scan of any row ends (the generator is exhausted and control is
\* back at the row loop), and the outer loop has run at most len(row) times
\* when it does, and at any time before.
C2_ScanTerminates ==
    /\ [](attempts <= Len(row))
    /\ [](pc \in {"scan", "body"} => <>(pc = "rows"))

\* a scan that ended having used every one of its len(row) attempts
C2_Witness ==
    /\ pc = "rows"
    /\ attempts >= 2
    /\ attempts = Len(row)

\* C3: an iteration of the outer loop that does not end the scan, whether it
\* yields a record or gives up the boundary as incomplete, leaves the scan
\* offset i strictly above the offset it started from; so each attempt
\* starts strictly above the start of the attempt before it.
C3_ForwardProgress ==
    [][(pc = "scan" /\ pc' \in {"scan", "body"})
          => /\ i' > i
             /\ last'.start = i
             /\ last.kind # "none" => last'.start > last.start]_vars

\* a second attempt of a row, started above the first and given up as
\* incomplete
C3_Witness ==
    /\ pc = "scan"
    /\ attempts >= 2
    /\ last.kind = "incomplete"
    /\ last.start > 0
    /\ i > last.start

\* the cells after the boundary b, from b + 2 on, that hold a status word
StatusCells(r, b) ==
    {k \in (b + 2)..(Len(r) - 1) : Lower(Strip(Cell(r, k))) \in STATUSES}

\* the cells after the cell s that hold a channel word
ChannelCells(r, s) ==
    {k \in (s + 1)..(Len(r) - 1) : Lower(Strip(Cell(r, k))) \in CHANNELS}

\* from the boundary b the row ends before a status word, or after the first
\* status word before a channel word
EndsIncomplete(r, b) ==
    \/ StatusCells(r, b) = {}
    \/ ChannelCells(r, SetMin(StatusCells(r, b))) = {}

\* C10: when the last boundary found, b, is one from which the row ends
\* before a status word or, after the status, before a channel word, the
\* attempt was given up, no record was yielded for b, and the scan offset is
\* b + 1.
C10_IncompleteNeverEmitted ==
    (last.b # NoIndex /\ EndsIncomplete(row, last.b))
        => /\ last.kind = "incomplete"
           /\ i = last.b + 1
           /\ \A k \in 1..Len(yielded) : yielded[k].b # last.b

\* a boundary given up because the row ends after its status, with no
\* channel
C10_Witness ==
    /\ last.kind = "incomplete"
    /\ StatusCells(row, last.b) # {}
    /\ ChannelCells(row, SetMin(StatusCells(row, last.b))) = {}
    /\ i = last.b + 1

-----------------------------------------------------------------------------
(* C4, C5: rows of well-formed transactions *)

\* seven cells: provider, region, customer id, status, channel, message, ISO
\* timestamp
WellFormed(t) ==
    /\ Len(t) = 7
    /\ t[1] \in PROVIDERS
    /\ t[2] \in REGION_SET
    /\ Contains(t[3], "@")
    /\ t[4] \in STATUSES
    /\ t[5] \in CHANNELS
    /\ ISO_PATTERN(t[7])

\* the scan of the current row is over
RowDone == pc \in {"rows", "returned"} /\ row # <<>>

\* the text part occurs in the text whole
OccursIn(part, whole) ==
    \E a \in 1..(Len(whole) + 1) : \E b \in (a - 1)..Len(whole) :
        part = SubSeq(whole, a, b)

\* the record holds the cells of the transaction t
Verbatim(rec, t) ==
    /\ rec.provider = t[1]
    /\ rec.region = t[2]
    /\ rec.customer = t[3]
    /\ rec.status = t[4]
    /\ rec.channel = t[5]
    /\ rec.message = t[6]
    /\ rec.payment_date = t[7]

\* every field of the record is taken from the cell of the transaction t
\* that holds it; the message may be a part of the message cell
FromOwnCells(rec, t) ==
    /\ rec.provider = t[1]
    /\ rec.region = t[2]
    /\ rec.customer = t[3]
    /\ rec.status = t[4]
    /\ rec.channel = t[5]
    /\ OccursIn(rec.message, t[6])
    /\ rec.payment_date = t[7]

\* C4: once a row made of two well-formed transactions is scanned, exactly
\* two records were yielded, the first from the first transaction and the
\* second from the second, and each field of each record is taken from the
\* cells of its own transaction.
C4_TwoRecordsFromOwnCells ==
    (/\ RowDone
     /\ Len(row) = 14
     /\ WellFormed(SubSeq(row, 1, 7))
     /\ WellFormed(SubSeq(row, 8, 14)))
        => /\ Len(yielded) = 2
           /\ yielded[1].b = 0
           /\ yielded[2].b = 7
           /\ FromOwnCells(yielded[1].rec, SubSeq(row, 1, 7))
           /\ FromOwnCells(yielded[2].rec, SubSeq(row, 8, 14))

\* C5: once a row that is one well-formed transaction is scanned, exactly
\* one record was yielded and its seven fields are the seven cells.
C5_OneRecordVerbatim ==
    (RowDone /\ WellFormed(row))
        => /\ Len(yielded) = 1
           /\ Verbatim(yielded[1].rec, row)

-----------------------------------------------------------------------------
(* C6: the gate of the loop body *)

-----------------------------------------------------------------------------
(* C7, C8, C9: parse_csv *)

\* the row is one transaction whose channel cell is no channel word; its
\* region and status are valid and its timestamp parses
UnknownChannelTx(t) ==
    /\ Len(t) = 7
    /\ Lower(Strip(t[1])) \in PROVIDERS
    /\ Strip(t[2]) \in REGION_SET
    /\ Lower(Strip(t[4])) \in STATUSES
    /\ Lower(Strip(t[5])) \notin CHANNELS
    /\ ISO_PATTERN(Strip(t[7]))
    /\ fromisoformat(ReplaceZ(Strip(t[7]))) # ParseError

\* the channel count under "other" is positive in the region, the region's
\* provider bucket, Aggregate and Aggregate's provider bucket
CountedAsOther(region, provider) ==
    /\ Count(RegionOf(summaries, region).channel_counts, s_other) >= 1
    /\ Count(ProviderOf(summaries, region, provider).channel_counts, s_other) >= 1
    /\ Count(RegionOf(summaries, s_Aggregate).channel_counts, s_other) >= 1
    /\ Count(ProviderOf(summaries, s_Aggregate, provider).channel_counts, s_other) >= 1

\* C7: once the row of a transaction with an unknown channel is processed,
\* the transaction is among the accepted records with channel "other", and
\* "other" is counted in the four channel counters.
C7_UnknownChannelCounted ==
    (RowDone /\ UnknownChannelTx(row))
        => /\ \E k \in 1..Len(transactions) :
                  /\ transactions[k].provider = Lower(Strip(row[1]))
                  /\ transactions[k].region = Strip(row[2])
                  /\ transactions[k].status = Lower(Strip(row[4]))
                  /\ transactions[k].channel = s_other
           /\ CountedAsOther(Strip(row[2]), Lower(Strip(row[1])))

\* the times lists of `after` are those of `before`
SameTimes(before, after) ==
    \A r \in DOMAIN after : after[r].times = RegionOf(before, r).times

\* C8: when the header gave no date (the default is the placeholder) and the
\* yielded record has no date of its own, the loop body accepts the record
\* with no time, goes on with the scan, adds one to the status, channel and
\* (status, message) counts of the region, of Aggregate and of the provider
\* bucket of each, and appends to no times list.
C8_MissingDateAccepted ==
    [][(/\ pc = "body"
        /\ default_dt = DEFAULT_DATE_PLACEHOLDER
        /\ cand.payment_date = DEFAULT_DATE_PLACEHOLDER)
          => /\ pc' = "scan"
             /\ Len(transactions') = Len(transactions) + 1
             /\ SubSeq(transactions', 1, Len(transactions)) = transactions
             /\ transactions'[Len(transactions')].dt = NoneDt
             /\ transactions'[Len(transactions')].customer = cand.customer
             /\ \A r \in {cand.region, s_Aggregate} :
                    /\ Bumped(RegionOf(summaries, r), RegionOf(summaries', r),
                              cand.status, cand.channel,
                              normalise_message(cand.message))
                    /\ Bumped(ProviderOf(summaries, r, cand.provider),
                              ProviderOf(summaries', r, cand.provider),
                              cand.status, cand.channel,
                              normalise_message(cand.message))
             /\ SameTimes(summaries, summaries')]_vars

\* a record with no date, under a header with no date, was accepted with no
\* time and no times list holds anything
C8_Witness ==
    /\ pc = "scan"
    /\ default_dt = DEFAULT_DATE_PLACEHOLDER
    /\ cand.payment_date = DEFAULT_DATE_PLACEHOLDER
    /\ transactions # <<>>
    /\ transactions[Len(transactions)].dt = NoneDt
    /\ transactions[Len(transactions)].customer = cand.customer
    /\ \A r \in DOMAIN summaries : summaries[r].times = <<>>
    /\ Count(summaries[s_Aggregate].status_counts, cand.status) >= 1

\* the timestamp text does not parse and is not the placeholder
TimestampFails(payment_date) ==
    /\ fromisoformat(ReplaceZ(payment_date)) = ParseError
    /\ payment_date # DEFAULT_DATE_PLACEHOLDER

\* C9: the loop body, run on a record whose timestamp does not parse and is
\* not the placeholder, changes neither the accepted records nor any summary,
\* and hands control back to the scan with the row, the scan offset, the
\* rest of the file and the default date untouched: what follows is what
\* would follow had the record not been yielded.
C9_ParseFailureDiscardsOnlyIt ==
    [][(pc = "body" /\ TimestampFails(cand.payment_date))
          => /\ pc' = "scan"
             /\ UNCHANGED <<transactions, summaries, reader, row, i,
                            default_dt, provider_order, region_order>>]_vars

\* the first record of a row was dropped for its timestamp and the second
\* record of the same row was accepted
C9_Witness ==
    /\ pc = "scan"
    /\ Len(yielded) = 2
    /\ TimestampFails(yielded[1].rec.payment_date)
    /\ ~TimestampFails(yielded[2].rec.payment_date)
    /\ cand = yielded[2].rec
    /\ Len(transactions) = 1
    /\ transactions[1].customer = yielded[2].rec.customer

-----------------------------------------------------------------------------
(* SpecNorm: _normalise_message on every short text *)

c_card_declined == <<"C", "A", "R", "D", "_", "_", "D", "E", "C", "L", "I", "N", "E", "D">>

MaxText == 3       \* characters of a message text, for SpecNorm

NormChars == {"a", "B", "_", ".", " "}

NormTexts == SeqsUpTo(NormChars, MaxText) \cup {c_card_declined, c_no_funds, c_otp}

\* the loop body is about to run on a valid tuple with the message m and no
\* date of its own, under a header with no date
InitNorm ==
    \E m \in NormTexts :
        /\ reader = <<>>
        /\ pc = "body"
        /\ default_dt = DEFAULT_DATE_PLACEHOLDER
        /\ row = <<>>
        /\ i = 0
        /\ cand = [provider |-> s_ozow, region |-> s_Kenya, status |-> s_failed,
                   channel |-> s_eft, message |-> m,
                   payment_date |-> DEFAULT_DATE_PLACEHOLDER, customer |-> c_cust_a]
        /\ transactions = <<>>
        /\ summaries = Put(<<>>, s_Aggregate, NewRegionSummary)
        /\ provider_order = providers_sorted
        /\ region_order = REGIONS
        /\ attempts = 0
        /\ last = NoAttempt
        /\ yielded = <<>>

\* lines 263 to 288 on that tuple: the message is normalised and counted
NormaliseOne == RunBody("done")

SpecNorm == InitNorm /\ [][NormaliseOne]_vars

\* C11: a normalised message that is not the blank sentinel is left as it is
\* by _normalise_message: here, for the message of every accepted record.
C11_NormaliseIdempotent ==
    \A k \in 1..Len(transactions) :
        transactions[k].message # BLANK_MESSAGE
            => normalise_message(transactions[k].message) = transactions[k].message

-----------------------------------------------------------------------------
(* C12: the closed vocabularies of the accepted records *)

\* the accepted record t was yielded from a boundary of the current row whose
\* two cells are its provider and its region
Resolved(t) ==
    \E j \in 1..Len(yielded) :
        /\ IsBoundary(row, yielded[j].b)
        /\ t.provider = Norm(Cell(row, yielded[j].b))
        /\ t.region = Strip(Cell(row, yielded[j].b + 1))
        /\ t.status = yielded[j].rec.status

\* C12: every accepted record has its provider in PROVIDERS, its region in
\* REGION_SET and its status in STATUSES, and comes from a provider cell and
\* a region cell of the row that resolve to them; nothing else is in the list.
C12_ClosedVocabularies ==
    \A k \in 1..Len(transactions) :
        /\ transactions[k].provider \in PROVIDERS
        /\ transactions[k].region \in REGION_SET
        /\ transactions[k].status \in STATUSES
        /\ Resolved(transactions[k])

\* a record accepted from a row that starts with a cell that is no provider
C12_Witness ==
    /\ Len(transactions) = 1
    /\ row # <<>>
    /\ Norm(row[1]) \notin PROVIDERS
    /\ transactions[1].provider = s_ozow
    /\ transactions[1].region = s_Kenya

-----------------------------------------------------------------------------
(* C13: the keys of the mapping parse_csv returns *)

\* C13: when parse_csv returns, summaries holds a RegionSummary under each of
\* the five region names and under "Aggregate", and under nothing else.
C13_AllRegionsPresent ==
    pc = "returned" => DOMAIN summaries = REGION_SET \cup {s_Aggregate}

-----------------------------------------------------------------------------
(* SpecFind: _find_next_provider_index on every short row and every start *)

c_lower_kenya == <<"k", "e", "n", "y", "a">>

MaxFind == 4       \* cells of a row, for SpecFind

FindCells == {s_ozow, c_padded_ozow, s_Kenya, c_padded_kenya, c_lower_kenya, c_ok}

\* a call _find_next_provider_index(r, start) is about to be made
InitFind ==
    \E r \in SeqsUpTo(FindCells, MaxFind) : \E start \in 0..(MaxFind + 1) :
        /\ reader = <<>>
        /\ pc = "find"
        /\ default_dt = DEFAULT_DATE_PLACEHOLDER
        /\ row = r
        /\ i = start
        /\ cand = NoCand
        /\ transactions = <<>>
        /\ summaries = Put(<<>>, s_Aggregate, NewRegionSummary)
        /\ provider_order = providers_sorted
        /\ region_order = REGIONS
        /\ attempts = 0
        /\ last = NoAttempt
        /\ yielded = <<>>

\* line 132: provider_idx = _find_next_provider_index(row, i); the result is
\* kept in last.b
FindOne ==
    /\ pc = "find"
    /\ \E b \in {find_next_provider_index(row, i)} :
           last' = [start |-> i, b |-> b,
                    kind |-> IF b = NoIndex THEN "break" ELSE "found"]
    /\ pc' = "found"
    /\ UNCHANGED <<reader, default_dt, row, i, cand, transactions, summaries,
                   provider_order, region_order, attempts, yielded>>

SpecFind == InitFind /\ [][FindOne]_vars

\* the indices from start to len(r) - 2 whose cell, trimmed and lowercased,
\* is a provider and whose next cell, trimmed, is a region name
BoundariesFrom(r, start) ==
    {k \in start..(Len(r) - 2) :
        /\ Lower(Strip(Cell(r, k))) \in PROVIDERS
        /\ Strip(Cell(r, k + 1)) \in REGION_SET}

-----------------------------------------------------------------------------
(* C15: two runs of extract_transactions on the same row *)

\* the record a second run of extract_transactions, iterating the
\* vocabularies in the orders po and ro, yields from the boundary b of the
\* current row
SecondRun(b, po, ro) == ScanAttempt(row, b, default_dt, po, ro).rec

\* C15: every record yielded from the row is the record any other run yields
\* from the same boundary of the same row with the same default timestamp,
\* whatever the orders in which that run iterates PROVIDERS and REGION_SET.
C15_ExtractorDeterministic ==
    \A k \in 1..Len(yielded) :
        \A po \in ProviderOrders : \A ro \in RegionOrders :
            SecondRun(yielded[k].b, po, ro) = yielded[k].rec

-----------------------------------------------------------------------------
(* C16: one Aggregator per range of rows *)

\* lines 229 to 231: the accumulators of a new run
FreshSummaries == Put(<<>>, s_Aggregate, NewRegionSummary)

\* the one element of a set of one element
The(S) == CHOOSE x \in S : TRUE

\* lines 247 to 288 for the rest of one row: extract_transactions goes on
\* from the offset start, and the loop body runs on every tuple it yields
RECURSIVE ScanRow(_, _, _, _, _, _, _)
ScanRow(r, start, dflt, porder, rorder, txs, sums) ==
    IF start >= Len(r) THEN [transactions |-> txs, summaries |-> sums]
    ELSE The({IF a.kind = "break" THEN [transactions |-> txs, summaries |-> sums]
              ELSE IF a.kind = "incomplete"
              THEN ScanRow(r, a.next_i, dflt, porder, rorder, txs, sums)
              ELSE The({ScanRow(r, a.next_i, dflt, porder, rorder,
                                x.transactions, x.summaries) :
                            x \in {LoopBody(txs, sums, a.rec)}}) :
                  a \in {ScanAttempt(r, start, dflt, porder, rorder)}})

\* lines 244 to 288: one Aggregator over the rows, in order
RECURSIVE PassRows(_, _, _, _, _, _)
PassRows(rows, dflt, porder, rorder, txs, sums) ==
    IF rows = <<>> THEN [transactions |-> txs, summaries |-> sums]
    ELSE The({PassRows(Tail(rows), dflt, porder, rorder,
                       x.transactions, x.summaries) :
                  x \in {ScanRow(Head(rows), 0, dflt, porder, rorder, txs, sums)}})

\* what the run returns, computed from the state it is in
Final ==
    IF pc = "rows"
    THEN PassRows(reader, default_dt, provider_order, region_order,
                  transactions, summaries)
    ELSE IF pc = "scan"
    THEN The({PassRows(reader, default_dt, provider_order, region_order,
                       x.transactions, x.summaries) :
                  x \in {ScanRow(row, i, default_dt, provider_order, region_order,
                                 transactions, summaries)}})
    ELSE IF pc = "body"
    THEN The({PassRows(reader, default_dt, provider_order, region_order,
                       x.transactions, x.summaries) :
                  x \in {The({ScanRow(row, i, default_dt, provider_order,
                                      region_order, y.transactions, y.summaries) :
                                  y \in {LoopBody(transactions, summaries, cand)}})}})
    ELSE [transactions |-> transactions, summaries |-> summaries]

\* the counters of the bucket s are, key by key, those of a plus those of b
SumsTo(a, b, s) ==
    /\ \A k \in DOMAIN a.status_counts \cup DOMAIN b.status_counts
                    \cup DOMAIN s.status_counts :
           Count(a.status_counts, k) + Count(b.status_counts, k)
               = Count(s.status_counts, k)
    /\ \A k \in DOMAIN a.channel_counts \cup DOMAIN b.channel_counts
                    \cup DOMAIN s.channel_counts :
           Count(a.channel_counts, k) + Count(b.channel_counts, k)
               = Count(s.channel_counts, k)
    /\ \A k \in MessageKeysOf(a) \cup MessageKeysOf(b) \cup MessageKeysOf(s) :
           MessageCount(a, k[1], k[2]) + MessageCount(b, k[1], k[2])
               = MessageCount(s, k[1], k[2])

\* the summaries A and B of two ranges, summed bucket by bucket, are the
\* summaries S: at region, Aggregate, region/provider and Aggregate/provider
\* level
ShardsSumTo(A, B, S) ==
    \A r \in REGION_SET \cup {s_Aggregate} :
        /\ SumsTo(RegionOf(A, r), RegionOf(B, r), RegionOf(S, r))
        /\ \A p \in PROVIDERS :
               SumsTo(ProviderOf(A, r, p), ProviderOf(B, r, p), ProviderOf(S, r, p))

\* the second range: the rows not yet read, given to a new Aggregator
SecondShard ==
    PassRows(reader, default_dt, provider_order, region_order, <<>>, FreshSummaries)

\* C16: between two rows, the summaries of the rows read so far (the first
\* range) and those a new Aggregator builds over the rows still to read (the
\* second range), summed bucket by bucket, are the summaries the single pass
\* ends with, and the records of the second range are the records the single
\* pass goes on to add: none of them depends on a row of the first range.
C16_ShardingEquivalent ==
    pc = "rows"
        => /\ ShardsSumTo(summaries, SecondShard.summaries, Final.summaries)
           /\ Final.transactions = transactions \o SecondShard.transactions

\* a split with a Ghana record counted on each side
C16_Witness ==
    /\ pc = "rows"
    /\ reader # <<>>
    /\ Count(RegionOf(summaries, s_Ghana).status_counts, s_successful) = 1
    /\ Count(RegionOf(SecondShard.summaries, s_Ghana).status_counts, s_successful) = 1
    /\ Count(RegionOf(Final.summaries, s_Ghana).status_counts, s_successful) = 2

-----------------------------------------------------------------------------
(* C17: the timestamp lists *)

\* the record was resolved to a real time, not to the missing date
HasRealTime(t) == t.dt # NoneDt

\* the times of the records of the sequence txs, in order
TimesOf(txs) == [k \in 1..Len(txs) |-> txs[k].dt]

\* the real times of the accepted records, in acceptance order
AcceptedTimes == TimesOf(SelectSeq(transactions, HasRealTime))

\* the real times of the accepted records of the region r, in acceptance order
AcceptedTimesOf(r) ==
    TimesOf(SelectSeq(transactions, LAMBDA t : HasRealTime(t) /\ t.region = r))

\* C17: the times list of Aggregate is the sequence of the real times of the
\* accepted records in acceptance order, and the list of each region is the
\* part of it that belongs to the region; a record resolved to the missing
\* date is in neither.
C17_TimesAreRealTimes ==
    /\ RegionOf(summaries, s_Aggregate).times = AcceptedTimes
    /\ \A r \in REGION_SET : RegionOf(summaries, r).times = AcceptedTimesOf(r)

\* a record with a missing date accepted in Ghana, then one with a real time
\* in the same region: the lists hold the one real time
C17_Witness ==
    /\ Len(transactions) = 2
    /\ transactions[1].dt = NoneDt
    /\ transactions[2].dt # NoneDt
    /\ transactions[1].region = s_Ghana
    /\ transactions[2].region = s_Ghana
    /\ Len(RegionOf(summaries, s_Ghana).times) = 1
    /\ Len(RegionOf(summaries, s_Aggregate).times) = 1

-----------------------------------------------------------------------------
(* SpecResume: a complete record followed by every short tail of cells *)

MaxTail == 3       \* cells after the channel of the first record, for SpecResume

TailCells == {c_ok, c_date_1, s_hubtel, s_Ghana, c_cust_a, s_failed, c_amount}

ResumeRows ==
    {<<s_ozow, s_Kenya, s_failed, s_eft>> \o t : t \in SeqsUpTo(TailCells, MaxTail)}

InitResume ==
    \E r \in ResumeRows : Start(<<header_plain, r>>, providers_sorted, REGIONS, "header")

SpecResume == InitResume /\ [][Next]_vars

\* the record last yielded, with its boundary and the offset the scan goes on
\* from
LastYield == yielded[Len(yielded)]

\* the token before the offset k was consumed as the timestamp of the record
\* last yielded
DateConsumed(k) ==
    /\ k > LastYield.b + 2
    /\ ISO_PATTERN(Strip(Cell(row, k - 1)))
    /\ LastYield.rec.payment_date = Strip(Cell(row, k - 1))

\* the token at the offset k is one that ends a message without being
\* consumed
Stopper(r, k) ==
    \/ k < Len(r) - 1 /\ IsBoundary(r, k)
    \/ Lower(Strip(Cell(r, k))) \in PROVIDERS
    \/ Strip(Cell(r, k)) \in REGION_SET
    \/ Contains(Strip(Cell(r, k)), "@")
    \/ Lower(Strip(Cell(r, k))) \in STATUSES \cup CHANNELS
    \/ k + 1 < Len(r) /\ is_number(Strip(Cell(r, k + 1)))

\* C18: when a record has been yielded, the scan offset is just after the
\* last token consumed: after the ISO token taken as the timestamp, or at the
\* token that stopped the message unconsumed, or at the end of the row; the
\* next boundary search starts from exactly that offset, and when the token
\* there is a boundary it is the boundary of the next attempt.
C18_ResumeAfterConsumed ==
    /\ [](pc = "body"
            => /\ i = LastYield.end
               /\ i <= Len(row)
               /\ i < Len(row) => (DateConsumed(i) \/ Stopper(row, i))
               /\ (i < Len(row) /\ ~DateConsumed(i))
                     => ~ISO_PATTERN(Strip(Cell(row, i))))
    /\ [][(pc = "scan" /\ last.kind = "yield")
            => /\ last'.start = i
               /\ (i < Len(row) - 1 /\ IsBoundary(row, i)) => last'.b = i]_vars

\* the second attempt of a row: it starts at the token that stopped the
\* message of the first record, which is its boundary
C18_Witness ==
    /\ Len(yielded) = 1
    /\ attempts = 2
    /\ last.start = yielded[1].end
    /\ last.b = last.start
    /\ yielded[1].rec.payment_date = default_dt

-----------------------------------------------------------------------------
(* C19: the totals of the counters *)

\* sum(counter.values())
RECURSIVE Total(_)
Total(counter) ==
    IF DOMAIN counter = {} THEN 0
    ELSE The({counter[k] + Total([x \in DOMAIN counter \ {k} |-> counter[x]]) :
                  k \in {CHOOSE k \in DOMAIN counter : TRUE}})

\* the number of records counted in the messages_by_status of a bucket
MessageTotal(s) ==
    Total([st \in DOMAIN s.messages_by_status |-> Total(s.messages_by_status[st])])

\* the three counters of the bucket hold n records each
Holds(s, n) ==
    /\ Total(s.status_counts) = n
    /\ Total(s.channel_counts) = n
    /\ MessageTotal(s) = n

\* the three counters of a bucket have the same total
Balanced(s) == Holds(s, Total(s.status_counts))

\* the total of the status counts of the provider buckets nested in a region
ProvidersTotal(s) ==
    Total([p \in DOMAIN s.providers |-> Total(s.providers[p].status_counts)])

\* the last accepted record
LastTx == transactions[Len(transactions)]

\* C19: in every bucket (each region, Aggregate, and each provider bucket
\* nested in them) the status counts, the channel counts and the message
\* counts have the same total; the total of a region, and of Aggregate, is
\* the sum of the totals of its provider buckets; Aggregate's total is the
\* number of accepted records; and a step that accepts a record adds one at
\* the record's status, channel and (status, message) keys in its region, in
\* Aggregate and in the provider bucket of each.
C19_CountersBalanced ==
    /\ [](/\ \A r \in DOMAIN summaries :
                /\ Balanced(summaries[r])
                /\ \A p \in DOMAIN summaries[r].providers :
                       Balanced(summaries[r].providers[p])
                /\ ProvidersTotal(summaries[r]) = Total(summaries[r].status_counts)
          /\ Holds(summaries[s_Aggregate], Len(transactions)))
    /\ [][Len(transactions') = Len(transactions) + 1
            => /\ \A r \in {LastTx'.region, s_Aggregate} :
                    /\ Bumped(RegionOf(summaries, r), RegionOf(summaries', r),
                              LastTx'.status, LastTx'.channel, LastTx'.message)
                    /\ Bumped(ProviderOf(summaries, r, LastTx'.provider),
                              ProviderOf(summaries', r, LastTx'.provider),
                              LastTx'.status, LastTx'.channel, LastTx'.message)
                    /\ Total(RegionOf(summaries', r).status_counts)
                           = Total(RegionOf(summaries, r).status_counts) + 1
               /\ \A r \in DOMAIN summaries \ {LastTx'.region, s_Aggregate} :
                      summaries'[r] = summaries[r]]_vars

\* two records of Ghana accepted under two providers: the region holds two
\* records and each provider bucket one
C19_Witness ==
    /\ Len(transactions) = 2
    /\ Holds(RegionOf(summaries, s_Ghana), 2)
    /\ Holds(ProviderOf(summaries, s_Ghana, s_hubtel), 1)
    /\ Holds(ProviderOf(summaries, s_Ghana, s_cellulant), 1)
    /\ Holds(RegionOf(summaries, s_Aggregate), 2)

-----------------------------------------------------------------------------
(* SpecRanges: rows of several boundaries, complete or not *)

MaxSegs == 5       \* pieces of a row, for SpecRanges

\* the pieces rows are made of: a boundary pair, a status, a channel, a
\* status and a channel, a timestamp
Segments == {<<s_ozow, s_Kenya>>, <<s_failed>>, <<s_eft>>, <<s_failed, s_eft>>,
             <<c_date_1>>}

RECURSIVE Flatten(_)
Flatten(ss) == IF ss = <<>> THEN <<>> ELSE Head(ss) \o Flatten(Tail(ss))

RangeRows == {Flatten(ss) : ss \in SeqsUpTo(Segments, MaxSegs)}

InitRanges ==
    \E r \in RangeRows : Start(<<header_plain, r>>, providers_sorted, REGIONS, "header")

SpecRanges == InitRanges /\ [][Next]_vars

\* the cells of the row from the boundary of the yielded record y up to the
\* last token it consumed
OwnCells(y) == SubSeq(row, y.b + 1, y.end)

\* C20: the records yielded from one row have strictly increasing boundaries
\* and cell ranges that follow one another without overlap; each record is
\* the record its own range of cells gives, alone; there are no more records
\* than boundary pairs in the row; and a boundary inside the range of a
\* yielded record is the boundary of no record.
C20_DisjointRanges ==
    /\ \A k \in 1..Len(yielded) :
           /\ yielded[k].b \in BoundariesFrom(row, 0)
           /\ yielded[k].b + 4 <= yielded[k].end
           /\ yielded[k].end <= Len(row)
           /\ yielded[k].rec =
                  ScanAttempt(OwnCells(yielded[k]), 0, default_dt,
                              provider_order, region_order).rec
           /\ \A j \in BoundariesFrom(row, 0) :
                  (yielded[k].b < j /\ j < yielded[k].end)
                      => \A m \in 1..Len(yielded) : yielded[m].b # j
    /\ \A k \in 1..(Len(yielded) - 1) :
           /\ yielded[k].b < yielded[k + 1].b
           /\ yielded[k].end <= yielded[k + 1].b
    /\ Len(yielded) <= Cardinality(BoundariesFrom(row, 0))

\* two records yielded from a row of three boundaries: the second boundary
\* lies inside the range of the first record
C20_Witness ==
    /\ Len(yielded) = 2
    /\ Cardinality(BoundariesFrom(row, 0)) = 3
    /\ \E j \in BoundariesFrom(row, 0) : yielded[1].b < j /\ j < yielded[1].end
    /\ yielded[1].end <= yielded[2].b

=============================================================================
